---- MODULE Spec2Model ----
(***************************************************************************)
(* Register access and configuration-encoding engine of the ICM-42670      *)
(* driver (src/src/lib.rs, src/src/config.rs).                             *)
(*                                                                         *)
(* The driver is modelled as a stack machine: every driver function is an  *)
(* action that runs the frame on top of `stack`, one statement at a time;  *)
(* a call pushes a frame, a return pops it and leaves the value in `ret`.  *)
(* The I2C bus is the environment: every transaction may fail, and a       *)
(* successful one reads or writes the device's primary-bank memory `dev`.  *)
(***************************************************************************)
EXTENDS Integers, Sequences, FiniteSets, TLC

(***************************************************************************)
(* Bounds of the model.                                                    *)
(***************************************************************************)
\* number of distinct byte samples the device memory and the private
\* engine's arguments are drawn from
MaxSample == 3
\* most "not ready" answers of one run of clock-ready polls that the trace
\* records (the device may give more)
MaxPolls == 1
\* most operations of one session, where operations follow each other
MaxCalls == 2

(***************************************************************************)
(* u8 arithmetic.                                                          *)
(***************************************************************************)
Byte == 0..255

RECURSIVE AndN(_, _, _)
AndN(a, b, n) ==
    IF n = 0 THEN 0
    ELSE ((a % 2) * (b % 2)) + 2 * AndN(a \div 2, b \div 2, n - 1)

\* a & b on u8
And8(a, b) == AndN(a, b, 8)
\* !a on u8
Not8(a) == 255 - a
\* a | b on u8
Or8(a, b) == a + b - And8(a, b)
\* a << n on u8 (bits shifted out are lost)
Shl8(a, n) == (a * (2 ^ n)) % 256
\* a >> n on u8
Shr8(a, n) == a \div (2 ^ n)

\* the byte samples: k * 53 mod 256 walks through all residues
Sample(k) == (k * 53) % 256
Samples == {Sample(k) : k \in 1..MaxSample}

(***************************************************************************)
(* Result<T, Error<E>>.  `n` carries a numeric value, `e` an enumerator,   *)
(* `v3` an I16x3, `err` the error kind and `cause` the transport error of  *)
(* a BusError.                                                             *)
(***************************************************************************)
NoVec == <<>>
Ok(n) == [ok |-> TRUE, n |-> n, e |-> "", v3 |-> NoVec, err |-> "none", cause |-> "none"]
OkUnit == Ok(0)
OkEnum(e) == [ok |-> TRUE, n |-> 0, e |-> e, v3 |-> NoVec, err |-> "none", cause |-> "none"]
OkVec(v) == [ok |-> TRUE, n |-> 0, e |-> "", v3 |-> v, err |-> "none", cause |-> "none"]
\* Ok(F32x3) whose components are v[i] / (scale / unit): the quotient is kept
\* as the raw numerators and the scale
OkScaled(v, scale) ==
    [ok |-> TRUE, n |-> scale, e |-> "", v3 |-> v, err |-> "none", cause |-> "none"]
Err(kind) == [ok |-> FALSE, n |-> 0, e |-> "", v3 |-> NoVec, err |-> kind, cause |-> "none"]
BusError(c) == [ok |-> FALSE, n |-> 0, e |-> "", v3 |-> NoVec, err |-> "BusError", cause |-> c]

(***************************************************************************)
(* config.rs: the bitfield codecs.                                         *)
(***************************************************************************)
AccelRange == [G2 |-> 3, G4 |-> 2, G8 |-> 1, G16 |-> 0]
AccelRange_BITMASK == 96
AccelRange_bits(v) == Shl8(AccelRange[v], 5)
AccelRange_default_G2 == "G2"
AccelRange_default == "G16"
AccelRange_try_from(value) ==
    CASE value = 0 -> OkEnum("G16")
      [] value = 1 -> OkEnum("G8")
      [] value = 2 -> OkEnum("G4")
      [] value = 3 -> OkEnum("G2")
      [] OTHER -> Err("InvalidDiscriminant")

\* AccelRange::scale_factor, LSB per g
AccelRange_scale_factor(v) ==
    CASE v = "G2" -> 16384
      [] v = "G4" -> 8192
      [] v = "G8" -> 4096
      [] v = "G16" -> 2048

GyroRange == [Deg250 |-> 3, Deg500 |-> 2, Deg1000 |-> 1, Deg2000 |-> 0]
GyroRange_BITMASK == 96
GyroRange_bits(v) == Shl8(GyroRange[v], 5)
GyroRange_default == "Deg2000"
GyroRange_try_from(value) ==
    CASE value = 0 -> OkEnum("Deg2000")
      [] value = 1 -> OkEnum("Deg1000")
      [] value = 2 -> OkEnum("Deg500")
      [] value = 3 -> OkEnum("Deg250")
      [] OTHER -> Err("InvalidDiscriminant")

\* GyroRange::scale_factor, in tenths of an LSB per degree per second
GyroRange_scale_factor(v) ==
    CASE v = "Deg250" -> 1310
      [] v = "Deg500" -> 655
      [] v = "Deg1000" -> 328
      [] v = "Deg2000" -> 164

PowerMode ==
    [Sleep |-> 0, Standby |-> 4, AccelLowPower |-> 2, AccelLowNoise |-> 3,
     GyroLowNoise |-> 12, SixAxisLowNoise |-> 15]
PowerMode_BITMASK == 15
PowerMode_bits(v) == PowerMode[v]
PowerMode_try_from_default(value) ==
    CASE value = 0 -> OkEnum("Sleep")
      [] value = 4 -> OkEnum("Standby")
      [] value = 2 -> OkEnum("AccelLowPower")
      [] value = 3 -> OkEnum("AccelLowNoise")
      [] value = 12 -> OkEnum("GyroLowNoise")
      [] value = 15 -> OkEnum("SixAxisLowNoise")
      [] OTHER -> OkEnum("Sleep")
PowerMode_try_from(value) ==
    CASE value = 0 -> OkEnum("Sleep")
      [] value = 4 -> OkEnum("Standby")
      [] value = 2 -> OkEnum("AccelLowPower")
      [] value = 3 -> OkEnum("AccelLowNoise")
      [] value = 12 -> OkEnum("GyroLowNoise")
      [] value = 15 -> OkEnum("SixAxisLowNoise")
      [] OTHER -> Err("InvalidDiscriminant")

AccelOdr ==
    [Hz1600 |-> 5, Hz800 |-> 6, Hz400 |-> 7, Hz200 |-> 8, Hz100 |-> 9,
     Hz50 |-> 10, Hz25 |-> 11, Hz12_5 |-> 12, Hz6_25 |-> 13, Hz3_125 |-> 14,
     Hz1_5625 |-> 15]
AccelOdr_BITMASK == 15
AccelOdr_bits(v) == AccelOdr[v]
AccelOdr_try_from(value) ==
    CASE value = 5 -> OkEnum("Hz1600")
      [] value = 6 -> OkEnum("Hz800")
      [] value = 7 -> OkEnum("Hz400")
      [] value = 8 -> OkEnum("Hz200")
      [] value = 9 -> OkEnum("Hz100")
      [] value = 10 -> OkEnum("Hz50")
      [] value = 11 -> OkEnum("Hz25")
      [] value = 12 -> OkEnum("Hz12_5")
      [] value = 13 -> OkEnum("Hz6_25")
      [] value = 14 -> OkEnum("Hz3_125")
      [] value = 15 -> OkEnum("Hz1_5625")
      [] OTHER -> Err("InvalidDiscriminant")

\* AccelOdr::as_f32, in ten-thousandths of a hertz
AccelOdr_as_f32(v) ==
    CASE v = "Hz1600" -> 16000000
      [] v = "Hz800" -> 8000000
      [] v = "Hz400" -> 4000000
      [] v = "Hz200" -> 2000000
      [] v = "Hz100" -> 1000000
      [] v = "Hz50" -> 500000
      [] v = "Hz25" -> 250000
      [] v = "Hz12_5" -> 125000
      [] v = "Hz6_25" -> 62500
      [] v = "Hz3_125" -> 31250
      [] v = "Hz1_5625" -> 15625

GyroOdr ==
    [Hz1600 |-> 5, Hz800 |-> 6, Hz400 |-> 7, Hz200 |-> 8, Hz100 |-> 9,
     Hz50 |-> 10, Hz25 |-> 11, Hz12_5 |-> 12]
GyroOdr_BITMASK == 15
GyroOdr_bits(v) == GyroOdr[v]
GyroOdr_try_from(value) ==
    CASE value = 5 -> OkEnum("Hz1600")
      [] value = 6 -> OkEnum("Hz800")
      [] value = 7 -> OkEnum("Hz400")
      [] value = 8 -> OkEnum("Hz200")
      [] value = 9 -> OkEnum("Hz100")
      [] value = 10 -> OkEnum("Hz50")
      [] value = 11 -> OkEnum("Hz25")
      [] value = 12 -> OkEnum("Hz12_5")
      [] OTHER -> Err("InvalidDiscriminant")

FifoCountFormat == [InBytes |-> 0, InRecords |-> 1]
FifoCountFormat_BITMASK == 64
FifoCountFormat_bits(v) == Shl8(FifoCountFormat[v], 6)
FifoCountFormat_try_from(value) ==
    CASE value = 0 -> OkEnum("InBytes")
      [] value = 1 -> OkEnum("InRecords")
      [] OTHER -> Err("BadConfig")

FifoCountEndian == [LittleEndian |-> 0, BigEndian |-> 1]
FifoCountEndian_BITMASK == 32
FifoCountEndian_bits(v) == Shl8(FifoCountEndian[v], 5)
FifoCountEndian_try_from(value) ==
    CASE value = 0 -> OkEnum("LittleEndian")
      [] value = 1 -> OkEnum("BigEndian")
      [] OTHER -> Err("BadConfig")

FifoMode == [Stream |-> 0, StopOnFull |-> 1]
FifoMode_BITMASK == 2
FifoMode_bits(v) == Shl8(FifoMode[v], 1)
FifoMode_try_from(value) ==
    CASE value = 0 -> OkEnum("Stream")
      [] value = 1 -> OkEnum("StopOnFull")
      [] OTHER -> Err("BadConfig")

FifoBypass == [FifoInUse |-> 0, FifoIsBypassed |-> 1]
FifoBypass_BITMASK == 1
FifoBypass_bits(v) == FifoBypass[v]
FifoBypass_try_from(value) ==
    CASE value = 0 -> OkEnum("FifoInUse")
      [] value = 1 -> OkEnum("FifoIsBypassed")
      [] OTHER -> Err("BadConfig")

\* the configuration axes and, per axis, the trait items of config.rs
Axes ==
    {"AccelRange", "GyroRange", "PowerMode", "AccelOdr", "GyroOdr",
     "FifoCountFormat", "FifoCountEndian", "FifoMode", "FifoBypass"}
FifoAxes == {"FifoCountFormat", "FifoCountEndian", "FifoMode", "FifoBypass"}

Discriminants(axis) ==
    CASE axis = "AccelRange" -> AccelRange
      [] axis = "GyroRange" -> GyroRange
      [] axis = "PowerMode" -> PowerMode
      [] axis = "AccelOdr" -> AccelOdr
      [] axis = "GyroOdr" -> GyroOdr
      [] axis = "FifoCountFormat" -> FifoCountFormat
      [] axis = "FifoCountEndian" -> FifoCountEndian
      [] axis = "FifoMode" -> FifoMode
      [] axis = "FifoBypass" -> FifoBypass
Enumerators(axis) == DOMAIN Discriminants(axis)

BITMASK(axis) ==
    CASE axis = "AccelRange" -> AccelRange_BITMASK
      [] axis = "GyroRange" -> GyroRange_BITMASK
      [] axis = "PowerMode" -> PowerMode_BITMASK
      [] axis = "AccelOdr" -> AccelOdr_BITMASK
      [] axis = "GyroOdr" -> GyroOdr_BITMASK
      [] axis = "FifoCountFormat" -> FifoCountFormat_BITMASK
      [] axis = "FifoCountEndian" -> FifoCountEndian_BITMASK
      [] axis = "FifoMode" -> FifoMode_BITMASK
      [] axis = "FifoBypass" -> FifoBypass_BITMASK

bits(axis, v) ==
    CASE axis = "AccelRange" -> AccelRange_bits(v)
      [] axis = "GyroRange" -> GyroRange_bits(v)
      [] axis = "PowerMode" -> PowerMode_bits(v)
      [] axis = "AccelOdr" -> AccelOdr_bits(v)
      [] axis = "GyroOdr" -> GyroOdr_bits(v)
      [] axis = "FifoCountFormat" -> FifoCountFormat_bits(v)
      [] axis = "FifoCountEndian" -> FifoCountEndian_bits(v)
      [] axis = "FifoMode" -> FifoMode_bits(v)
      [] axis = "FifoBypass" -> FifoBypass_bits(v)

try_from(axis, value) ==
    CASE axis = "AccelRange" -> AccelRange_try_from(value)
      [] axis = "GyroRange" -> GyroRange_try_from(value)
      [] axis = "PowerMode" -> PowerMode_try_from(value)
      [] axis = "AccelOdr" -> AccelOdr_try_from(value)
      [] axis = "GyroOdr" -> GyroOdr_try_from(value)
      [] axis = "FifoCountFormat" -> FifoCountFormat_try_from(value)
      [] axis = "FifoCountEndian" -> FifoCountEndian_try_from(value)
      [] axis = "FifoMode" -> FifoMode_try_from(value)
      [] axis = "FifoBypass" -> FifoBypass_try_from(value)

(***************************************************************************)
(* register.rs: the register map.  A descriptor is named as in the source  *)
(* and carries an address and a read-only flag; a shadow bank carries a    *)
(* block-select code.                                                      *)
(***************************************************************************)
Bank0 ==
    {"MCLK_RDY", "SIGNAL_PATH_RESET", "INT_CONFIG", "TEMP_DATA1", "TEMP_DATA0",
     "ACCEL_DATA_X1", "ACCEL_DATA_X0", "ACCEL_DATA_Y1", "ACCEL_DATA_Y0",
     "ACCEL_DATA_Z1", "ACCEL_DATA_Z0", "GYRO_DATA_X1", "GYRO_DATA_X0",
     "GYRO_DATA_Y1", "GYRO_DATA_Y0", "GYRO_DATA_Z1", "GYRO_DATA_Z0",
     "PWR_MGMT0", "GYRO_CONFIG0", "ACCEL_CONFIG0", "APEX_CONFIG1",
     "INT_STATUS3", "WHO_AM_I", "BLK_SEL_W", "MADDR_W", "M_W", "BLK_SEL_R",
     "MADDR_R", "M_R"}
Mreg1 == {"INT_SOURCE7", "APEX_CONFIG5"}
Registers == Bank0 \cup Mreg1
RegisterBank == {"MReg1", "MReg2", "MReg3"}

addr(reg) ==
    CASE reg = "MCLK_RDY" -> 0
      [] reg = "SIGNAL_PATH_RESET" -> 2
      [] reg = "INT_CONFIG" -> 6
      [] reg = "TEMP_DATA1" -> 9
      [] reg = "TEMP_DATA0" -> 10
      [] reg = "ACCEL_DATA_X1" -> 11
      [] reg = "ACCEL_DATA_X0" -> 12
      [] reg = "ACCEL_DATA_Y1" -> 13
      [] reg = "ACCEL_DATA_Y0" -> 14
      [] reg = "ACCEL_DATA_Z1" -> 15
      [] reg = "ACCEL_DATA_Z0" -> 16
      [] reg = "GYRO_DATA_X1" -> 17
      [] reg = "GYRO_DATA_X0" -> 18
      [] reg = "GYRO_DATA_Y1" -> 19
      [] reg = "GYRO_DATA_Y0" -> 20
      [] reg = "GYRO_DATA_Z1" -> 21
      [] reg = "GYRO_DATA_Z0" -> 22
      [] reg = "PWR_MGMT0" -> 31
      [] reg = "GYRO_CONFIG0" -> 32
      [] reg = "ACCEL_CONFIG0" -> 33
      [] reg = "APEX_CONFIG1" -> 38
      [] reg = "INT_STATUS3" -> 60
      [] reg = "WHO_AM_I" -> 117
      [] reg = "BLK_SEL_W" -> 121
      [] reg = "MADDR_W" -> 122
      [] reg = "M_W" -> 123
      [] reg = "BLK_SEL_R" -> 124
      [] reg = "MADDR_R" -> 125
      [] reg = "M_R" -> 126
      [] reg = "INT_SOURCE7" -> 48
      [] reg = "APEX_CONFIG5" -> 72

ReadOnlyRegs ==
    {"MCLK_RDY", "TEMP_DATA1", "TEMP_DATA0", "ACCEL_DATA_X1", "ACCEL_DATA_X0",
     "ACCEL_DATA_Y1", "ACCEL_DATA_Y0", "ACCEL_DATA_Z1", "ACCEL_DATA_Z0",
     "GYRO_DATA_X1", "GYRO_DATA_X0", "GYRO_DATA_Y1", "GYRO_DATA_Y0",
     "GYRO_DATA_Z1", "GYRO_DATA_Z0", "INT_STATUS3", "WHO_AM_I"}
read_only(reg) == reg \in ReadOnlyRegs

blk_sel(bank) ==
    CASE bank = "MReg1" -> 0
      [] bank = "MReg2" -> 40
      [] bank = "MReg3" -> 80

(***************************************************************************)
(* The bus and the device behind it.                                       *)
(***************************************************************************)
\* the transport's error values (the type parameter E)
BusErrs == {"Nack", "ArbitrationLoss"}

\* registers whose content the device produces itself: a read may return
\* anything, a write does not stick
Volatile == {"MCLK_RDY", "M_R"}
\* primary-bank addresses that behave as memory
MemAddrs == {addr(r) : r \in Bank0 \ Volatile}

\* one entry of the transaction log: a bus read ("r"), a bus write ("w")
\* or a delay ("d", val microseconds)
Ev(k, a, v, c) == [k |-> k, addr |-> a, val |-> v, err |-> c]

\* a frame of the call stack
F0 ==
    [fn |-> "", pc |-> 0, reg |-> "", reg2 |-> "", bank |-> "", value |-> 0,
     mask |-> 0, cur |-> 0, axis |-> "", arg |-> "", acc |-> <<>>]

VARIABLES
    dev,     \* device memory: primary-bank address -> byte
    dev0,    \* device memory when the current operation was called
    stack,   \* call stack of the driver, innermost frame last
    ret,     \* value returned by the last function that returned
    trace,   \* transactions and delays issued by the current operation
    polls,   \* consecutive clock-ready reads that came back not ready
    op,      \* the operation the caller invoked
    calls,   \* operations of the session that have returned to the caller
    prev     \* the last operation that returned, if it returned Ok
vars == <<dev, dev0, stack, ret, trace, polls, op, calls, prev>>

Top == stack[Len(stack)]
Rest == SubSeq(stack, 1, Len(stack) - 1)
Running(f) == stack # <<>> /\ Top.fn = f
Idle == stack = <<>> /\ op.fn = ""
Done == stack = <<>> /\ op.fn # ""

\* `return v`
Return(v) == stack' = Rest /\ ret' = v
\* the running frame becomes `me` and calls `g`
CallFn(me, g) == stack' = Append(Append(Rest, me), g) /\ ret' = ret
\* the running function ends with a call of `g` and returns what `g` returns
TailCall(g) == stack' = Append(Rest, g) /\ ret' = ret
\* the `?` operator applied to the value the callee returned
Failed(r) == ~r.ok

ReadRegFrame(reg) == [F0 EXCEPT !.fn = "read_reg", !.reg = reg]
WriteRegFrame(reg, value) == [F0 EXCEPT !.fn = "write_reg", !.reg = reg, !.value = value]
UpdateRegFrame(reg, value, mask) ==
    [F0 EXCEPT !.fn = "update_reg", !.reg = reg, !.value = value, !.mask = mask]
ReadRegI16Frame(hi, lo) == [F0 EXCEPT !.fn = "read_reg_i16", !.reg = hi, !.reg2 = lo]
ReadMregFrame(bank, reg) == [F0 EXCEPT !.fn = "read_mreg", !.bank = bank, !.reg = reg]
WriteMregFrame(bank, reg, value) ==
    [F0 EXCEPT !.fn = "write_mreg", !.bank = bank, !.reg = reg, !.value = value]
UpdateMregFrame(bank, reg, value, mask) ==
    [F0 EXCEPT !.fn = "update_mreg", !.bank = bank, !.reg = reg, !.value = value,
               !.mask = mask]
Fn(name) == [F0 EXCEPT !.fn = name]
FnArg(name, v) == [F0 EXCEPT !.fn = name, !.arg = v]

\* what the device answers to a successful read of address a
DeviceRead(a) ==
    IF a \in DOMAIN dev THEN {dev[a]}
    ELSE IF a = addr("MCLK_RDY")
         THEN {8, 247}
         ELSE Samples
\* The clock-ready register may answer "not ready" any number of times.  The
\* trace keeps the first MaxPolls such answers of a run of polls; a further
\* one is the same transaction again and is not recorded a second time.
Coalesced(a, b) == a = addr("MCLK_RDY") /\ And8(b, 8) = 0 /\ polls = MaxPolls
\* the device memory after a successful write of v to address a
DeviceWrite(a, v) == IF a \in DOMAIN dev THEN [dev EXCEPT ![a] = v] ELSE dev

(***************************************************************************)
(* lib.rs, PRIVATE: the direct access engine.                              *)
(***************************************************************************)
map_err_swallow(c) == Ok(0)
\* .map_err(|e| Error::BusError(e))
map_err(c) == BusError(c)

read_reg ==
    /\ Running("read_reg")
    /\ LET a == addr(Top.reg) IN
         \/ \E c \in BusErrs :
              /\ trace' = Append(trace, Ev("r", a, 0, c))
              /\ Return(map_err(c))
              /\ polls' = polls
         \/ \E b \in DeviceRead(a) :
              /\ trace' = IF Coalesced(a, b) THEN trace
                          ELSE Append(trace, Ev("r", a, b, "none"))
              /\ Return(Ok(b))
              /\ polls' = IF a = addr("MCLK_RDY") /\ And8(b, 8) = 0
                          THEN (IF polls < MaxPolls THEN polls + 1 ELSE polls)
                          ELSE 0
    /\ UNCHANGED <<dev, dev0, op, calls, prev>>

from_le_bytes(b0, b1) ==
    LET u == b1 * 256 + b0 IN IF u >= 32768 THEN u - 65536 ELSE u
\* i16::from_be_bytes([b0, b1])
from_be_bytes(b0, b1) ==
    LET u == b0 * 256 + b1 IN IF u >= 32768 THEN u - 65536 ELSE u

read_reg_i16 ==
    /\ Running("read_reg_i16")
    /\ CASE Top.pc = 0 -> CallFn([Top EXCEPT !.pc = 1], ReadRegFrame(Top.reg))
         [] Top.pc = 1 ->
              IF Failed(ret) THEN Return(ret)
              ELSE CallFn([Top EXCEPT !.pc = 2, !.cur = ret.n], ReadRegFrame(Top.reg2))
         [] Top.pc = 2 ->
              IF Failed(ret) THEN Return(ret)
              ELSE Return(Ok(from_be_bytes(Top.cur, ret.n)))
    /\ UNCHANGED <<dev, dev0, trace, polls, op, calls, prev>>

WriteRegRefuses(reg) == read_only(reg)

write_reg ==
    /\ Running("write_reg")
    /\ IF WriteRegRefuses(Top.reg)
       THEN Return(Err("WriteToReadOnly")) /\ UNCHANGED <<dev, trace>>
       ELSE LET a == addr(Top.reg) IN
              \/ \E c \in BusErrs :
                   /\ trace' = Append(trace, Ev("w", a, Top.value, c))
                   /\ Return(map_err(c))
                   /\ dev' = dev
              \/ /\ trace' = Append(trace, Ev("w", a, Top.value, "none"))
                 /\ dev' = DeviceWrite(a, Top.value)
                 /\ Return(OkUnit)
    /\ UNCHANGED <<dev0, polls, op, calls, prev>>

UpdateRegNeverRefuses(reg) == FALSE
UpdateRegRefuses(reg) == read_only(reg)

UpdateRegValueClobber(current, value, mask) == Or8(current, And8(value, mask))
\* (current & !mask) | (value & mask)
UpdateRegValue(current, value, mask) ==
    Or8(And8(current, Not8(mask)), And8(value, mask))

update_reg ==
    /\ Running("update_reg")
    /\ CASE Top.pc = 0 ->
              IF UpdateRegRefuses(Top.reg) THEN Return(Err("WriteToReadOnly"))
              ELSE CallFn([Top EXCEPT !.pc = 1], ReadRegFrame(Top.reg))
         [] Top.pc = 1 ->
              IF Failed(ret) THEN Return(ret)
              ELSE TailCall(WriteRegFrame(Top.reg,
                                          UpdateRegValue(ret.n, Top.value, Top.mask)))
    /\ UNCHANGED <<dev, dev0, trace, polls, op, calls, prev>>

(***************************************************************************)
(* lib.rs, PRIVATE: the indirect access engine.                            *)
(***************************************************************************)
\* delay.delay_us(10)
Delay == Ev("d", 0, 10, "none")

NotReadyNever(b) == FALSE
\* the ready bit of MCLK_RDY is clear
NotReady(b) == And8(b, 8) = 0

read_mreg_stmt_no_reset(n, bank, reg) ==
    CASE n = 1 -> WriteRegFrame("BLK_SEL_R", blk_sel(bank))
      [] n = 2 -> WriteRegFrame("MADDR_R", addr(reg))
      [] n = 3 -> ReadRegFrame("M_R")
      [] n = 4 -> WriteRegFrame("BLK_SEL_W", 0)
      [] n = 5 -> WriteRegFrame("BLK_SEL_R", 0)
\* the n-th bus access of read_mreg after the clock-ready poll
read_mreg_stmt(n, bank, reg) ==
    CASE n = 1 -> WriteRegFrame("BLK_SEL_R", blk_sel(bank))
      [] n = 2 -> WriteRegFrame("MADDR_R", addr(reg))
      [] n = 3 -> ReadRegFrame("M_R")
      [] n = 4 -> WriteRegFrame("BLK_SEL_R", 0)
      [] n = 5 -> WriteRegFrame("BLK_SEL_W", 0)
\* the accesses of read_mreg that a delay precedes
read_mreg_delays == {3, 4}

read_mreg ==
    /\ Running("read_mreg")
    /\ LET f == Top IN
       CASE f.pc = 0 ->
              /\ CallFn([f EXCEPT !.pc = 1], ReadRegFrame("MCLK_RDY"))
              /\ trace' = trace
         [] f.pc = 1 ->
              /\ IF Failed(ret) THEN Return(ret)
                 ELSE IF NotReady(ret.n) THEN CallFn(f, ReadRegFrame("MCLK_RDY"))
                 ELSE CallFn([f EXCEPT !.pc = 2], read_mreg_stmt(1, f.bank, f.reg))
              /\ trace' = trace
         [] f.pc \in 2..5 ->
              IF Failed(ret) THEN Return(ret) /\ trace' = trace
              ELSE /\ CallFn([f EXCEPT !.pc = @ + 1,
                                       !.cur = IF f.pc = 4 THEN ret.n ELSE @],
                             read_mreg_stmt(f.pc, f.bank, f.reg))
                   /\ trace' = IF f.pc \in read_mreg_delays
                               THEN Append(trace, Delay) ELSE trace
         [] f.pc = 6 ->
              /\ IF Failed(ret) THEN Return(ret) ELSE Return(Ok(f.cur))
              /\ trace' = trace
    /\ UNCHANGED <<dev, dev0, polls, op, calls, prev>>

write_mreg_stmt_one_reset(n, bank, reg, value) ==
    CASE n = 1 -> WriteRegFrame("BLK_SEL_W", blk_sel(bank))
      [] n = 2 -> WriteRegFrame("MADDR_W", addr(reg))
      [] n = 3 -> WriteRegFrame("M_W", value)
      [] n = 4 -> WriteRegFrame("BLK_SEL_R", 0)
      [] n = 5 -> WriteRegFrame("BLK_SEL_R", 0)
write_mreg_stmt_read_side(n, bank, reg, value) ==
    CASE n = 1 -> WriteRegFrame("BLK_SEL_W", blk_sel(bank))
      [] n = 2 -> WriteRegFrame("MADDR_R", addr(reg))
      [] n = 3 -> WriteRegFrame("M_W", value)
      [] n = 4 -> WriteRegFrame("BLK_SEL_R", 0)
      [] n = 5 -> WriteRegFrame("BLK_SEL_W", 0)
\* the n-th bus access of write_mreg after the clock-ready poll
write_mreg_stmt(n, bank, reg, value) ==
    CASE n = 1 -> WriteRegFrame("BLK_SEL_W", blk_sel(bank))
      [] n = 2 -> WriteRegFrame("MADDR_W", addr(reg))
      [] n = 3 -> WriteRegFrame("M_W", value)
      [] n = 4 -> WriteRegFrame("BLK_SEL_R", 0)
      [] n = 5 -> WriteRegFrame("BLK_SEL_W", 0)
write_mreg_delays_both == {3, 4}
\* the accesses of write_mreg that a delay precedes
write_mreg_delays == {4}

write_mreg ==
    /\ Running("write_mreg")
    /\ LET f == Top IN
       CASE f.pc = 0 ->
              /\ CallFn([f EXCEPT !.pc = 1], ReadRegFrame("MCLK_RDY"))
              /\ trace' = trace
         [] f.pc = 1 ->
              /\ IF Failed(ret) THEN Return(ret)
                 ELSE IF NotReady(ret.n) THEN CallFn(f, ReadRegFrame("MCLK_RDY"))
                 ELSE CallFn([f EXCEPT !.pc = 2],
                             write_mreg_stmt(1, f.bank, f.reg, f.value))
              /\ trace' = trace
         [] f.pc \in 2..5 ->
              IF Failed(ret) THEN Return(ret) /\ trace' = trace
              ELSE /\ CallFn([f EXCEPT !.pc = @ + 1],
                             write_mreg_stmt(f.pc, f.bank, f.reg, f.value))
                   /\ trace' = IF f.pc \in write_mreg_delays
                               THEN Append(trace, Delay) ELSE trace
         [] f.pc = 6 ->
              /\ IF Failed(ret) THEN Return(ret) ELSE Return(OkUnit)
              /\ trace' = trace
    /\ UNCHANGED <<dev, dev0, polls, op, calls, prev>>

UpdateMregRefuses(reg) == read_only(reg)

\* (current & !mask) | (value & mask)
UpdateMregValue(current, value, mask) ==
    Or8(And8(current, Not8(mask)), And8(value, mask))

update_mreg ==
    /\ Running("update_mreg")
    /\ CASE Top.pc = 0 ->
              IF UpdateMregRefuses(Top.reg) THEN Return(Err("WriteToReadOnly"))
              ELSE CallFn([Top EXCEPT !.pc = 1], ReadMregFrame(Top.bank, Top.reg))
         [] Top.pc = 1 ->
              IF Failed(ret) THEN Return(ret)
              ELSE TailCall(WriteMregFrame(Top.bank, Top.reg,
                                           UpdateMregValue(ret.n, Top.value, Top.mask)))
    /\ UNCHANGED <<dev, dev0, trace, polls, op, calls, prev>>

(***************************************************************************)
(* lib.rs: the session operations.                                         *)
(***************************************************************************)
DEVICE_IDS_shifted == {103, 104}
DEVICE_IDS == {96, 103}

engine == <<dev, dev0, trace, polls, op, calls, prev>>

device_id ==
    /\ Running("device_id")
    /\ TailCall(ReadRegFrame("WHO_AM_I"))
    /\ UNCHANGED engine

soft_reset ==
    /\ Running("soft_reset")
    /\ TailCall(UpdateRegFrame("SIGNAL_PATH_RESET", 16, 16))
    /\ UNCHANGED engine

int_status3 ==
    /\ Running("int_status3")
    /\ TailCall(ReadRegFrame("INT_STATUS3"))
    /\ UNCHANGED engine

temperature_raw ==
    /\ Running("temperature_raw")
    /\ TailCall(ReadRegI16Frame("TEMP_DATA1", "TEMP_DATA0"))
    /\ UNCHANGED engine

\* the three read_reg_i16 calls of gyro_raw / accel_raw and the I16x3 they build
RawAxes(f, x, y, z) ==
    CASE f.pc = 0 -> CallFn([f EXCEPT !.pc = 1], ReadRegI16Frame(x[1], x[2]))
      [] f.pc = 1 ->
           IF Failed(ret) THEN Return(ret)
           ELSE CallFn([f EXCEPT !.pc = 2, !.acc = <<ret.n>>], ReadRegI16Frame(y[1], y[2]))
      [] f.pc = 2 ->
           IF Failed(ret) THEN Return(ret)
           ELSE CallFn([f EXCEPT !.pc = 3, !.acc = Append(@, ret.n)],
                       ReadRegI16Frame(z[1], z[2]))
      [] f.pc = 3 ->
           IF Failed(ret) THEN Return(ret)
           ELSE Return(OkVec(Append(f.acc, ret.n)))

gyro_raw ==
    /\ Running("gyro_raw")
    /\ RawAxes(Top, <<"GYRO_DATA_X1", "GYRO_DATA_X0">>, <<"GYRO_DATA_Y1", "GYRO_DATA_Y0">>,
               <<"GYRO_DATA_Z1", "GYRO_DATA_Z0">>)
    /\ UNCHANGED engine

\* the `?` of accel_raw wraps the driver's error as the cause of an
\* accelerometer::Error; the driver's error is what the model keeps
accel_raw ==
    /\ Running("accel_raw")
    /\ RawAxes(Top, <<"ACCEL_DATA_X1", "ACCEL_DATA_X0">>,
               <<"ACCEL_DATA_Y1", "ACCEL_DATA_Y0">>, <<"ACCEL_DATA_Z1", "ACCEL_DATA_Z0">>)
    /\ UNCHANGED engine

\* gyro_norm / accel_norm: the range, then the raw axes, then the division
Norm(f, range, raw, scale_factor) ==
    CASE f.pc = 0 -> CallFn([f EXCEPT !.pc = 1], Fn(range))
      [] f.pc = 1 ->
           IF Failed(ret) THEN Return(ret)
           ELSE CallFn([f EXCEPT !.pc = 2, !.arg = ret.e], Fn(raw))
      [] f.pc = 2 ->
           IF Failed(ret) THEN Return(ret)
           ELSE Return(OkScaled(ret.v3, scale_factor[f.arg]))

gyro_norm ==
    /\ Running("gyro_norm")
    /\ Norm(Top, "gyro_range", "gyro_raw",
            [v \in DOMAIN GyroRange |-> GyroRange_scale_factor(v)])
    /\ UNCHANGED engine

accel_norm ==
    /\ Running("accel_norm")
    /\ Norm(Top, "accel_range", "accel_raw",
            [v \in DOMAIN AccelRange |-> AccelRange_scale_factor(v)])
    /\ UNCHANGED engine

\* (raw / 128.0) + 25.0, in 128ths of a degree
temperature ==
    /\ Running("temperature")
    /\ CASE Top.pc = 0 -> CallFn([Top EXCEPT !.pc = 1], Fn("temperature_raw"))
         [] Top.pc = 1 ->
              IF Failed(ret) THEN Return(ret) ELSE Return(Ok(ret.n + 25 * 128))
    /\ UNCHANGED engine

sample_rate ==
    /\ Running("sample_rate")
    /\ CASE Top.pc = 0 -> CallFn([Top EXCEPT !.pc = 1], Fn("accel_odr"))
         [] Top.pc = 1 ->
              IF Failed(ret) THEN Return(ret) ELSE Return(Ok(AccelOdr_as_f32(ret.e)))
    /\ UNCHANGED engine

\* a getter: read the register, cut the field out, decode it
Getter(f, reg, decoded) ==
    CASE f.pc = 0 -> CallFn([f EXCEPT !.pc = 1], ReadRegFrame(reg))
      [] f.pc = 1 -> IF Failed(ret) THEN Return(ret) ELSE Return(decoded)

power_mode ==
    /\ Running("power_mode")
    /\ Getter(Top, "PWR_MGMT0", PowerMode_try_from(And8(ret.n, 15)))
    /\ UNCHANGED engine

set_power_mode ==
    /\ Running("set_power_mode")
    /\ TailCall(UpdateRegFrame("PWR_MGMT0", PowerMode_bits(Top.arg), PowerMode_BITMASK))
    /\ UNCHANGED engine

accel_range ==
    /\ Running("accel_range")
    /\ Getter(Top, "ACCEL_CONFIG0", AccelRange_try_from(Shr8(ret.n, 5)))
    /\ UNCHANGED engine

set_accel_range ==
    /\ Running("set_accel_range")
    /\ TailCall(UpdateRegFrame("ACCEL_CONFIG0", AccelRange_bits(Top.arg),
                               AccelRange_BITMASK))
    /\ UNCHANGED engine

gyro_range ==
    /\ Running("gyro_range")
    /\ Getter(Top, "GYRO_CONFIG0", GyroRange_try_from(Shr8(ret.n, 5)))
    /\ UNCHANGED engine

set_gyro_range ==
    /\ Running("set_gyro_range")
    /\ TailCall(UpdateRegFrame("GYRO_CONFIG0", GyroRange_bits(Top.arg), GyroRange_BITMASK))
    /\ UNCHANGED engine

accel_odr ==
    /\ Running("accel_odr")
    /\ Getter(Top, "ACCEL_CONFIG0", AccelOdr_try_from(And8(ret.n, 15)))
    /\ UNCHANGED engine

set_accel_odr ==
    /\ Running("set_accel_odr")
    /\ TailCall(UpdateRegFrame("ACCEL_CONFIG0", AccelOdr_bits(Top.arg), AccelOdr_BITMASK))
    /\ UNCHANGED engine

gyro_odr ==
    /\ Running("gyro_odr")
    /\ Getter(Top, "GYRO_CONFIG0", GyroOdr_try_from(And8(ret.n, 15)))
    /\ UNCHANGED engine

set_gyro_odr ==
    /\ Running("set_gyro_odr")
    /\ TailCall(UpdateRegFrame("GYRO_CONFIG0", GyroOdr_bits(Top.arg), GyroOdr_BITMASK))
    /\ UNCHANGED engine

\* (latched_mode as u8) << 5 | (push_pull as u8) << 4 | (active_high as u8) << 3
IntConfigBits(latched_mode, push_pull, active_high) ==
    Or8(Or8(Shl8(latched_mode, 5), Shl8(push_pull, 4)), Shl8(active_high, 3))

config_int2 ==
    /\ Running("config_int2")
    /\ TailCall(UpdateRegFrame("INT_CONFIG",
                               IntConfigBits(Top.acc[1], Top.acc[2], Top.acc[3]), 56))
    /\ UNCHANGED engine

do_the_thing ==
    /\ Running("do_the_thing")
    /\ CASE Top.pc = 0 ->
              CallFn([Top EXCEPT !.pc = 1], UpdateRegFrame("APEX_CONFIG1", Shl8(1, 4), 16))
         [] Top.pc = 1 ->
              IF Failed(ret) THEN Return(ret)
              ELSE CallFn([Top EXCEPT !.pc = 2],
                          UpdateMregFrame("MReg1", "INT_SOURCE7", Shl8(1, 3), 8))
         [] Top.pc = 2 ->
              IF Failed(ret) THEN Return(ret)
              ELSE CallFn([Top EXCEPT !.pc = 3],
                          UpdateMregFrame("MReg1", "APEX_CONFIG5", Shl8(1, 6), 64))
         [] Top.pc = 3 -> IF Failed(ret) THEN Return(ret) ELSE Return(OkUnit)
    /\ UNCHANGED engine

\* Icm42670::new: Ok(me) is the enumerator-less value "Icm42670"
new ==
    /\ Running("new")
    /\ CASE Top.pc = 0 -> CallFn([Top EXCEPT !.pc = 1], Fn("device_id"))
         [] Top.pc = 1 ->
              IF Failed(ret) THEN Return(ret)
              ELSE IF ret.n \notin DEVICE_IDS THEN Return(Err("BadChip"))
              ELSE CallFn([Top EXCEPT !.pc = 2],
                          FnArg("set_accel_range", AccelRange_default))
         [] Top.pc = 2 ->
              IF Failed(ret) THEN Return(ret)
              ELSE CallFn([Top EXCEPT !.pc = 3], FnArg("set_gyro_range", GyroRange_default))
         [] Top.pc = 3 ->
              IF Failed(ret) THEN Return(ret)
              ELSE CallFn([Top EXCEPT !.pc = 4], FnArg("set_power_mode", "SixAxisLowNoise"))
         [] Top.pc = 4 -> IF Failed(ret) THEN Return(ret) ELSE Return(OkEnum("Icm42670"))
    /\ UNCHANGED engine

(***************************************************************************)
(* config.rs: a codec function applied on its own.                         *)
(***************************************************************************)
Bitfield_bits ==
    /\ Running("bits")
    /\ Return(Ok(bits(Top.axis, Top.arg)))
    /\ UNCHANGED engine

TryFrom_try_from ==
    /\ Running("try_from")
    /\ Return(try_from(Top.axis, Top.value))
    /\ UNCHANGED engine

(***************************************************************************)
(* The caller.                                                             *)
(***************************************************************************)
Bool01 == {0, 1}
MregArgs == Mreg1 \cup {"WHO_AM_I"}
DataRegs == {r \in Bank0 : addr(r) \in 9..22}

PublicCalls ==
    {Fn(f) : f \in {"new", "device_id", "soft_reset", "gyro_raw", "accel_raw",
                    "temperature_raw", "power_mode", "accel_range", "gyro_range",
                    "accel_odr", "gyro_odr", "do_the_thing", "int_status3",
                    "gyro_norm", "accel_norm", "temperature", "sample_rate"}}
    \cup {FnArg("set_power_mode", v) : v \in DOMAIN PowerMode}
    \cup {FnArg("set_accel_range", v) : v \in DOMAIN AccelRange}
    \cup {FnArg("set_gyro_range", v) : v \in DOMAIN GyroRange}
    \cup {FnArg("set_accel_odr", v) : v \in DOMAIN AccelOdr}
    \cup {FnArg("set_gyro_odr", v) : v \in DOMAIN GyroOdr}
    \cup {[F0 EXCEPT !.fn = "config_int2", !.acc = <<l, p, a>>] :
            l \in Bool01, p \in Bool01, a \in Bool01}

PrivateCalls ==
    {ReadRegFrame(r) : r \in Bank0}
    \cup {WriteRegFrame(r, v) : r \in Bank0, v \in Samples}
    \cup {UpdateRegFrame(r, v, m) : r \in Bank0, v \in Samples, m \in Samples}
    \cup {ReadRegI16Frame(hi, lo) : hi \in DataRegs, lo \in DataRegs}
    \cup {ReadMregFrame(b, r) : b \in RegisterBank, r \in MregArgs}
    \cup {WriteMregFrame(b, r, v) : b \in RegisterBank, r \in MregArgs, v \in Samples}
    \cup {UpdateMregFrame(b, r, v, m) :
            b \in RegisterBank, r \in MregArgs, v \in Samples, m \in Samples}

CodecCalls ==
    UNION {{[F0 EXCEPT !.fn = "bits", !.axis = x, !.arg = v] : v \in Enumerators(x)} :
             x \in Axes}
    \cup {[F0 EXCEPT !.fn = "try_from", !.axis = x, !.value = b] : x \in Axes, b \in Byte}

\* what a call does to the session's bookkeeping, whichever operation it is
Entered ==
    /\ dev0' = dev
    /\ trace' = <<>>
    /\ polls' = 0
    /\ UNCHANGED <<dev, ret, calls, prev>>

\* the caller invokes one operation of the driver
Call ==
    /\ Idle
    /\ \E f \in PublicCalls \cup PrivateCalls \cup CodecCalls :
         /\ stack' = <<f>>
         /\ op' = f
    /\ Entered

\* The operation has returned and the caller, who holds the session, goes on
\* to its next operation on the same device.
Again ==
    /\ Done
    /\ calls + 1 < MaxCalls
    /\ calls' = calls + 1
    /\ prev' = IF ret.ok THEN op ELSE F0
    /\ op' = F0
    /\ dev0' = dev
    /\ trace' = <<>>
    /\ polls' = 0
    /\ ret' = OkUnit
    /\ UNCHANGED <<dev, stack>>

\* the device before the first operation: any identity byte, a neutral
\* gateway, and sample bytes in every other register
InitDev(k, who) ==
    [a \in MemAddrs |->
        IF a = addr("WHO_AM_I") THEN who
        ELSE IF a \in {addr("BLK_SEL_R"), addr("BLK_SEL_W")} THEN 0
        ELSE Sample(k + a)]

Init ==
    /\ \E k \in 1..MaxSample :
         \E who \in DEVICE_IDS \cup {Sample(k + 1)} : dev = InitDev(k, who)
    /\ dev0 = dev
    /\ stack = <<>>
    /\ ret = OkUnit
    /\ trace = <<>>
    /\ polls = 0
    /\ op = F0
    /\ calls = 0
    /\ prev = F0

Next ==
    \/ Call
    \/ read_reg
    \/ read_reg_i16
    \/ write_reg
    \/ update_reg
    \/ read_mreg
    \/ write_mreg
    \/ update_mreg
    \/ new
    \/ device_id
    \/ soft_reset
    \/ int_status3
    \/ temperature_raw
    \/ temperature
    \/ gyro_raw
    \/ gyro_norm
    \/ accel_raw
    \/ accel_norm
    \/ sample_rate
    \/ power_mode
    \/ set_power_mode
    \/ accel_range
    \/ set_accel_range
    \/ gyro_range
    \/ set_gyro_range
    \/ accel_odr
    \/ set_accel_odr
    \/ gyro_odr
    \/ set_gyro_odr
    \/ config_int2
    \/ do_the_thing
    \/ Bitfield_bits
    \/ TryFrom_try_from

Spec == Init /\ [][Next]_vars

TypeOK ==
    /\ \A a \in DOMAIN dev : dev[a] \in Byte
    /\ polls \in 0..MaxPolls
    /\ \A i \in 1..Len(trace) : trace[i].val \in Byte
    /\ calls \in 0..(MaxCalls - 1)

(***************************************************************************)
(* Sessions of several operations.                                         *)
(***************************************************************************)
\* a device with an accepted identity, its memory seeded by one of `ks`
InitSession(ks) ==
    /\ \E k \in ks : dev = InitDev(k, 103)
    /\ dev0 = dev
    /\ stack = <<>>
    /\ ret = OkUnit
    /\ trace = <<>>
    /\ polls = 0
    /\ op = F0
    /\ calls = 0
    /\ prev = F0

\* the indirect operations, on every shadow bank, and a direct-bank read
IndirectCalls ==
    {ReadMregFrame(b, "INT_SOURCE7") : b \in RegisterBank}
    \cup {WriteMregFrame(b, "INT_SOURCE7", Sample(1)) : b \in RegisterBank}
    \cup {UpdateMregFrame(b, "APEX_CONFIG5", Sample(1), Sample(2)) : b \in RegisterBank}
    \cup {Fn("device_id")}
CallIndirect ==
    /\ Idle
    /\ \E f \in IndirectCalls :
         /\ stack' = <<f>>
         /\ op' = f
    /\ Entered

NextGateway ==
    \/ CallIndirect
    \/ Again
    \/ read_reg
    \/ write_reg
    \/ read_mreg
    \/ write_mreg
    \/ update_mreg
    \/ device_id

\* what the gateway does is independent of the bytes the other registers hold
InitGateway == InitSession({1})
SpecGateway == InitGateway /\ [][NextGateway]_vars

\* the five configuration axes of the session: their getters and setters
SetGetCalls ==
    {Fn(f) : f \in {"power_mode", "accel_range", "gyro_range", "accel_odr", "gyro_odr"}}
    \cup {FnArg("set_power_mode", v) : v \in DOMAIN PowerMode}
    \cup {FnArg("set_accel_range", v) : v \in DOMAIN AccelRange}
    \cup {FnArg("set_gyro_range", v) : v \in DOMAIN GyroRange}
    \cup {FnArg("set_accel_odr", v) : v \in DOMAIN AccelOdr}
    \cup {FnArg("set_gyro_odr", v) : v \in DOMAIN GyroOdr}
CallSetGet ==
    /\ Idle
    /\ \E f \in SetGetCalls :
         /\ stack' = <<f>>
         /\ op' = f
    /\ Entered

NextSetGet ==
    \/ CallSetGet
    \/ Again
    \/ read_reg
    \/ write_reg
    \/ update_reg
    \/ power_mode
    \/ set_power_mode
    \/ accel_range
    \/ set_accel_range
    \/ gyro_range
    \/ set_gyro_range
    \/ accel_odr
    \/ set_accel_odr
    \/ gyro_odr
    \/ set_gyro_odr

InitSetGet == InitSession(1..MaxSample)
SpecSetGet == InitSetGet /\ [][NextSetGet]_vars

(***************************************************************************)
(* One indirect read or write, run to its end.  The driver is synchronous  *)
(* code on one thread: a function that has been called executes its next   *)
(* statement, and a blocking bus transaction comes back with a value or an *)
(* error.  What the device answers is not constrained: MCLK_RDY may read   *)
(* "not ready" for ever.                                                   *)
(***************************************************************************)
PollCalls ==
    {ReadMregFrame(b, r) : b \in RegisterBank, r \in MregArgs}
    \cup {WriteMregFrame(b, r, v) : b \in RegisterBank, r \in MregArgs, v \in Samples}
CallPoll ==
    /\ Idle
    /\ \E f \in PollCalls :
         /\ stack' = <<f>>
         /\ op' = f
    /\ Entered

\* the driver executes its next statement
Step ==
    \/ read_reg
    \/ write_reg
    \/ read_mreg
    \/ write_mreg

NextPoll ==
    \/ CallPoll
    \/ Step

SpecPoll == Init /\ [][NextPoll]_vars /\ WF_vars(Step)

(***************************************************************************)
(* Properties.                                                             *)
(***************************************************************************)
\* bit i of the byte x
Bit(x, i) == (x \div (2 ^ i)) % 2
\* the bus transactions of the current operation, delays left out
BusTrace == SelectSeq(trace, LAMBDA e : e.k # "d")
\* no bus transaction of the current operation failed
NoFailure == \A i \in 1..Len(trace) : trace[i].err = "none"
BusRead(reg, b) == Ev("r", addr(reg), b, "none")
BusWrite(reg, b) == Ev("w", addr(reg), b, "none")
\* x is b with the bits of mask replaced by those of pattern
FieldSet(x, b, pattern, mask) ==
    \A i \in 0..7 : Bit(x, i) = IF Bit(mask, i) = 1 THEN Bit(pattern, i) ELSE Bit(b, i)
\* the indices of the bus transactions on register reg of kind k
Accesses(k, reg) ==
    {i \in 1..Len(BusTrace) : BusTrace[i].k = k /\ BusTrace[i].addr = addr(reg)}

\* C1: field isolation.  A successful update_reg issues exactly one read of
\* the register and then exactly one write of (B & ~mask) | (pattern & mask),
\* B being the byte the device held; a successful update_mreg writes to M_W
\* the byte it read from M_R with the bits of mask replaced by the pattern's.
C1_FieldIsolation ==
    /\ (Done /\ op.fn = "update_reg" /\ ret.ok) =>
          /\ Len(BusTrace) = 2
          /\ BusTrace[1].k = "r" /\ BusTrace[1].addr = addr(op.reg)
          /\ BusTrace[2].k = "w" /\ BusTrace[2].addr = addr(op.reg)
          /\ FieldSet(BusTrace[2].val, BusTrace[1].val, op.value, op.mask)
          /\ addr(op.reg) \in DOMAIN dev0 =>
                /\ BusTrace[1].val = dev0[addr(op.reg)]
                /\ FieldSet(dev[addr(op.reg)], dev0[addr(op.reg)], op.value, op.mask)
    /\ (Done /\ op.fn = "update_mreg" /\ ret.ok) =>
          /\ Cardinality(Accesses("r", "M_R")) = 1
          /\ Cardinality(Accesses("w", "M_W")) = 1
          /\ \A i \in Accesses("r", "M_R") : \A j \in Accesses("w", "M_W") :
                /\ i < j
                /\ FieldSet(BusTrace[j].val, BusTrace[i].val, op.value, op.mask)

\* a successful update_reg of a field that differs from the pattern, in a
\* register that has bits set outside the mask
C1_Witness ==
    /\ Done /\ op.fn = "update_reg" /\ ret.ok
    /\ addr(op.reg) \in DOMAIN dev0
    /\ \E i \in 0..7 : Bit(op.mask, i) = 0 /\ Bit(dev0[addr(op.reg)], i) = 1
    /\ \E i \in 0..7 : Bit(op.mask, i) = 1 /\ Bit(dev0[addr(op.reg)], i) = 1
                                            /\ Bit(op.value, i) = 0
    /\ dev[addr(op.reg)] # dev0[addr(op.reg)]

\* C2: read-only enforcement.  write_reg, update_reg and update_mreg on a
\* read-only descriptor issue no bus transaction, leave the device as it
\* was and return WriteToReadOnly.
C2_ReadOnlyEnforced ==
    (op.fn \in {"write_reg", "update_reg", "update_mreg"} /\ read_only(op.reg)) =>
        /\ trace = <<>>
        /\ dev = dev0
        /\ Done => ret = Err("WriteToReadOnly")

\* update_mreg on a read-only descriptor has returned
C2_Witness ==
    /\ Done /\ op.fn = "update_mreg" /\ read_only(op.reg)
    /\ ret.err = "WriteToReadOnly"

\* the bus trace t is n clock-ready reads of which only the last has the
\* ready bit set
ReadyPolls(t, n) ==
    /\ n >= 1
    /\ \A i \in 1..n :
         /\ t[i].k = "r" /\ t[i].addr = addr("MCLK_RDY") /\ t[i].err = "none"
         /\ (Bit(t[i].val, 3) = 1) <=> (i = n)

\* C3: indirect read order.  With no failed transaction read_mreg issues the
\* clock-ready polls, the write of the block-select code to BLK_SEL_R, the
\* write of the address to MADDR_R, the read of M_R, the writes of 0 to
\* BLK_SEL_R and to BLK_SEL_W, nothing else, and returns the byte read from M_R.
C3_ReadMregOrder ==
    (Done /\ op.fn = "read_mreg" /\ NoFailure) =>
        LET t == BusTrace
            n == Len(t) - 5
        IN  /\ ReadyPolls(t, n)
            /\ t[n + 1] = BusWrite("BLK_SEL_R", blk_sel(op.bank))
            /\ t[n + 2] = BusWrite("MADDR_R", addr(op.reg))
            /\ t[n + 3].k = "r" /\ t[n + 3].addr = addr("M_R")
            /\ t[n + 4] = BusWrite("BLK_SEL_R", 0)
            /\ t[n + 5] = BusWrite("BLK_SEL_W", 0)
            /\ ret = Ok(t[n + 3].val)

\* a read_mreg of a bank with a non-zero block-select code that polled twice
C3_Witness ==
    /\ Done /\ op.fn = "read_mreg" /\ NoFailure /\ ret.ok
    /\ blk_sel(op.bank) # 0
    /\ Cardinality(Accesses("r", "MCLK_RDY")) >= 2

\* C4: indirect write order.  With no failed transaction write_mreg issues
\* the clock-ready polls, the write of the block-select code to BLK_SEL_W,
\* of the address to MADDR_W, of the value to M_W, then 0 to BLK_SEL_R and to
\* BLK_SEL_W; it reads no gateway data register and writes neither MADDR_R
\* nor M_R.
C4_WriteMregOrder ==
    (Done /\ op.fn = "write_mreg" /\ NoFailure) =>
        LET t == BusTrace
            n == Len(t) - 5
        IN  /\ ReadyPolls(t, n)
            /\ t[n + 1] = BusWrite("BLK_SEL_W", blk_sel(op.bank))
            /\ t[n + 2] = BusWrite("MADDR_W", addr(op.reg))
            /\ t[n + 3] = BusWrite("M_W", op.value)
            /\ t[n + 4] = BusWrite("BLK_SEL_R", 0)
            /\ t[n + 5] = BusWrite("BLK_SEL_W", 0)
            /\ Accesses("r", "M_R") = {} /\ Accesses("r", "M_W") = {}
            /\ Accesses("w", "MADDR_R") = {} /\ Accesses("w", "M_R") = {}
            /\ ret = OkUnit

\* a write_mreg of a bank with a non-zero block-select code that polled twice
C4_Witness ==
    /\ Done /\ op.fn = "write_mreg" /\ NoFailure /\ ret.ok
    /\ blk_sel(op.bank) # 0
    /\ Cardinality(Accesses("r", "MCLK_RDY")) >= 2

\* the identity read of the current operation succeeded and returned id
IdentityRead(id) == trace # <<>> /\ trace[1] = BusRead("WHO_AM_I", id)

\* C5: identity gate.  When the identity register reads 0x67 or 0x60 and no
\* transaction fails, new returns a session; when it reads any other byte,
\* new returns BadChip and the identity read is its only bus transaction.
C5_IdentityGate ==
    (Done /\ op.fn = "new") =>
        \A id \in Byte :
            IdentityRead(id) =>
                /\ id = dev0[addr("WHO_AM_I")]
                /\ (id \in {103, 96} /\ NoFailure) => ret = OkEnum("Icm42670")
                /\ id \notin {103, 96} =>
                      /\ ret = Err("BadChip")
                      /\ trace = <<BusRead("WHO_AM_I", id)>>
                      /\ dev = dev0

\* new has returned a session from a device that identifies as 0x60
C5_Witness ==
    /\ Done /\ op.fn = "new" /\ ret.ok
    /\ IdentityRead(96)

\* C6: codec round trip.  Decoding the masked encoding of an enumerator
\* returns the enumerator: try_from(V.bits() & BITMASK) == Ok(V).
C6_RoundTrip ==
    (Done /\ op.fn = "try_from") =>
        \A v \in Enumerators(op.axis) :
            op.value = And8(bits(op.axis, v), BITMASK(op.axis)) => ret = OkEnum(v)

\* the values that are the discriminant of an enumerator of the axis
Legal(axis) == {Discriminants(axis)[v] : v \in Enumerators(axis)}

\* C7: invalid field decode.  Decoding a value that matches no enumerator
\* returns InvalidDiscriminant (BadConfig for the FIFO codecs), and
\* power_mode, accel_odr and gyro_odr return InvalidDiscriminant whenever
\* the low nibble of the register is a reserved pattern.
C7_InvalidDecode ==
    /\ (Done /\ op.fn = "try_from" /\ op.value \notin Legal(op.axis)) =>
          ret = Err(IF op.axis \in FifoAxes THEN "BadConfig" ELSE "InvalidDiscriminant")
    /\ \A g \in {<<"power_mode", "PowerMode", "PWR_MGMT0">>,
                 <<"accel_odr", "AccelOdr", "ACCEL_CONFIG0">>,
                 <<"gyro_odr", "GyroOdr", "GYRO_CONFIG0">>} :
          (Done /\ op.fn = g[1] /\ NoFailure) =>
              /\ trace = <<BusRead(g[3], dev0[addr(g[3])])>>
              /\ (dev0[addr(g[3])] % 16) \notin Legal(g[2]) =>
                    ret = Err("InvalidDiscriminant")

\* power_mode has read a reserved pattern
C7_Witness ==
    /\ Done /\ op.fn = "power_mode" /\ NoFailure
    /\ (dev0[addr("PWR_MGMT0")] % 16) \notin {0, 4, 2, 3, 12, 15}
    /\ ~ret.ok

\* C8: 16-bit combination.  read_reg_i16 reads the high register, then the
\* low register, and returns h * 256 + l as a two's-complement i16.
C8_BigEndian ==
    (Done /\ op.fn = "read_reg_i16" /\ ret.ok) =>
        /\ Len(trace) = 2
        /\ trace[1].k = "r" /\ trace[1].addr = addr(op.reg)
        /\ trace[2].k = "r" /\ trace[2].addr = addr(op.reg2)
        /\ ret.n \in -32768..32767
        /\ (ret.n + 65536) % 65536 = trace[1].val * 256 + trace[2].val

\* read_reg_i16 has combined two different bytes into a negative value
C8_Witness ==
    /\ Done /\ op.fn = "read_reg_i16" /\ ret.ok
    /\ trace[1].val # trace[2].val
    /\ ret.n < 0

\* the bits of x outside the field [lo, lo + width)
Outside(x, lo, width) == <<x % (2 ^ lo), x \div (2 ^ (lo + width))>>
\* the field [lo, lo + width) of x
Field(x, lo, width) == (x \div (2 ^ lo)) % (2 ^ width)

\* C9: initialization baseline.  A successful new reads the identity, then
\* reads and writes ACCEL_CONFIG0, GYRO_CONFIG0 and PWR_MGMT0 in this order;
\* afterwards both range fields (bits 6:5) are 00, the low nibble of
\* PWR_MGMT0 is 1111 and every other bit of the device is as before.
C9_InitBaseline ==
    (Done /\ op.fn = "new" /\ ret.ok) =>
        LET A == addr("ACCEL_CONFIG0")
            G == addr("GYRO_CONFIG0")
            P == addr("PWR_MGMT0")
        IN  /\ Len(trace) = 7
            /\ trace[1] = BusRead("WHO_AM_I", dev0[addr("WHO_AM_I")])
            /\ trace[2] = BusRead("ACCEL_CONFIG0", dev0[A])
            /\ trace[3] = BusWrite("ACCEL_CONFIG0", dev[A])
            /\ trace[4] = BusRead("GYRO_CONFIG0", dev0[G])
            /\ trace[5] = BusWrite("GYRO_CONFIG0", dev[G])
            /\ trace[6] = BusRead("PWR_MGMT0", dev0[P])
            /\ trace[7] = BusWrite("PWR_MGMT0", dev[P])
            /\ Field(dev[A], 5, 2) = 0 /\ Outside(dev[A], 5, 2) = Outside(dev0[A], 5, 2)
            /\ Field(dev[G], 5, 2) = 0 /\ Outside(dev[G], 5, 2) = Outside(dev0[G], 5, 2)
            /\ Field(dev[P], 0, 4) = 15 /\ Outside(dev[P], 0, 4) = Outside(dev0[P], 0, 4)
            /\ \A a \in DOMAIN dev \ {A, G, P} : dev[a] = dev0[a]

\* new has succeeded on a device whose three fields were not at the baseline
\* and whose range registers had other bits set
C9_Witness ==
    /\ Done /\ op.fn = "new" /\ ret.ok
    /\ Field(dev0[addr("ACCEL_CONFIG0")], 5, 2) # 0
    /\ Field(dev0[addr("GYRO_CONFIG0")], 5, 2) # 0
    /\ Field(dev0[addr("PWR_MGMT0")], 0, 4) # 15
    /\ Outside(dev[addr("ACCEL_CONFIG0")], 5, 2) # <<0, 0>>
    /\ Outside(dev[addr("GYRO_CONFIG0")], 5, 2) # <<0, 0>>

IndirectOps == {"read_mreg", "write_mreg", "update_mreg"}
\* both block-select registers hold zero
Neutral == dev[addr("BLK_SEL_R")] = 0 /\ dev[addr("BLK_SEL_W")] = 0

ReadySeen ==
    \E i \in 1..Len(trace) :
       /\ trace[i].k = "r" /\ trace[i].addr = addr("MCLK_RDY")
       /\ trace[i].err = "none" /\ And8(trace[i].val, 8) # 0
\* a bus transaction of the current operation has failed
FailureSeen == \E i \in 1..Len(trace) : trace[i].err # "none"
ReadOrWrite == op.fn \in {"read_mreg", "write_mreg"}
\* the poll loop is looking at a clock-ready byte with the ready bit clear
PollAnsweredNotReady ==
    /\ ReadOrWrite /\ Len(stack) = 1 /\ Top.pc = 1
    /\ ret.ok /\ And8(ret.n, 8) = 0

\* no block-select write is issued before a clock-ready read has returned
\* the ready bit set
C12_NoSelectBeforeReady ==
    ReadOrWrite =>
       \A i \in 1..Len(trace) :
          (trace[i].k = "w" /\ trace[i].addr \in {addr("BLK_SEL_R"), addr("BLK_SEL_W")})
             => \E j \in 1..(i - 1) :
                   /\ trace[j].k = "r" /\ trace[j].addr = addr("MCLK_RDY")
                   /\ trace[j].err = "none" /\ And8(trace[j].val, 8) # 0
\* the operation returns only after a ready answer or a failed transaction
C12_ReturnsOnlyWhenReadyOrFailed ==
    (ReadOrWrite /\ Done) => (ReadySeen \/ FailureSeen)
\* after a "not ready" answer, however many came before it, the next step of
\* the operation is another clock-ready read: there is no bound or timeout
C12_PollsAgain ==
    (PollAnsweredNotReady /\ stack' # stack) =>
       (Len(stack') = 2 /\ stack'[2] = ReadRegFrame("MCLK_RDY") /\ stack'[1] = stack[1])

\* C12: an indirect read or write issues no block-select write until a
\* clock-ready read has returned the ready bit (0x8) set; once a clock-ready
\* read has returned the bit set or a bus transaction has failed, the operation
\* returns; and as long as every clock-ready read succeeds with the bit clear
\* the operation has not returned and its next step is another poll, without
\* any iteration bound.
C12_ReadyPoll ==
    /\ []C12_NoSelectBeforeReady
    /\ (ReadOrWrite /\ (ReadySeen \/ FailureSeen)) ~> Done
    /\ []C12_ReturnsOnlyWhenReadyOrFailed
    /\ [][C12_PollsAgain]_vars

\* an indirect write has returned Ok after the device answered "not ready" as
\* often as the trace records and then "ready"
C12_Witness ==
    /\ Done /\ op.fn = "write_mreg" /\ ret.ok
    /\ Len(trace) > MaxPolls
    /\ \A i \in 1..MaxPolls :
          trace[i].k = "r" /\ trace[i].addr = addr("MCLK_RDY") /\ And8(trace[i].val, 8) = 0
    /\ ReadySeen

(***************************************************************************)
(* C13.  What the getters decode.                                          *)
(***************************************************************************)
\* getter -> the axis it decodes, the register it reads, and its setter
GetterOf ==
    [power_mode  |-> [axis |-> "PowerMode",  reg |-> "PWR_MGMT0",     set |-> "set_power_mode"],
     accel_range |-> [axis |-> "AccelRange", reg |-> "ACCEL_CONFIG0", set |-> "set_accel_range"],
     gyro_range  |-> [axis |-> "GyroRange",  reg |-> "GYRO_CONFIG0",  set |-> "set_gyro_range"],
     accel_odr   |-> [axis |-> "AccelOdr",   reg |-> "ACCEL_CONFIG0", set |-> "set_accel_odr"],
     gyro_odr    |-> [axis |-> "GyroOdr",    reg |-> "GYRO_CONFIG0",  set |-> "set_gyro_odr"]]
GetterDone == Done /\ op.fn \in DOMAIN GetterOf /\ NoFailure

\* C13: for every register byte, power_mode, accel_range, gyro_range, accel_odr
\* and gyro_odr return the enumerator whose bit pattern equals the byte masked
\* with the axis's BITMASK, whatever the bits outside the mask; and a getter
\* that directly follows its own setter's successful set(v) returns Ok(v),
\* whatever byte the register held before the set.
C13_GetterDecode ==
    GetterDone =>
       LET g == GetterOf[op.fn]
           b == dev[addr(g.reg)]
       IN  /\ trace = <<BusRead(g.reg, b)>>
           /\ \A v \in Enumerators(g.axis) :
                 bits(g.axis, v) = And8(b, BITMASK(g.axis)) => ret = OkEnum(v)
           /\ prev.fn = g.set => ret = OkEnum(prev.arg)

(***************************************************************************)
(* C14.  Settle delays.                                                    *)
(***************************************************************************)
DelaysTaken == Cardinality({i \in 1..Len(trace) : trace[i].k = "d"})
IsWrite(e, reg) == e.k = "w" /\ e.addr = addr(reg) /\ e.err = "none"
IsRead(e, reg) == e.k = "r" /\ e.addr = addr(reg) /\ e.err = "none"
IsAddress(e) == IsWrite(e, "MADDR_R") \/ IsWrite(e, "MADDR_W")
IsData(e) == IsRead(e, "M_R") \/ IsWrite(e, "M_W")
IsReset(e) == (IsWrite(e, "BLK_SEL_R") \/ IsWrite(e, "BLK_SEL_W")) /\ e.val = 0
\* the operation ends: address, 10 us, data, 10 us, reset, reset
TwoSettles ==
    /\ DelaysTaken = 2 /\ Len(trace) >= 6
    /\ LET t(j) == trace[Len(trace) - 5 + j] IN
         /\ IsAddress(t(0))
         /\ t(1) = Ev("d", 0, 10, "none")
         /\ IsData(t(2))
         /\ t(3) = Ev("d", 0, 10, "none")
         /\ IsReset(t(4)) /\ IsReset(t(5))
\* the operation ends: address, data, 10 us, reset, reset
OneSettle ==
    /\ DelaysTaken = 1 /\ Len(trace) >= 5
    /\ LET t(j) == trace[Len(trace) - 4 + j] IN
         /\ IsAddress(t(0))
         /\ IsData(t(1))
         /\ t(2) = Ev("d", 0, 10, "none")
         /\ IsReset(t(3)) /\ IsReset(t(4))

\* C14 as stated: each successful read_mreg and each successful write_mreg
\* takes exactly two 10 us delays, the first after the target address has been
\* written and before the gateway data register is accessed, the second after
\* the data access and before the block-select resets.
C14_TwoDelaysEach ==
    (Done /\ op.fn \in {"read_mreg", "write_mreg"} /\ ret.ok) => TwoSettles

\* C14 amended: each successful read_mreg takes exactly two 10 us delays, after
\* the address write and before the read of M_R, and after that read and
\* before the block-select resets; each successful write_mreg takes exactly
\* one 10 us delay, after the write of M_W and before the block-select resets,
\* and none between the address write and the write of M_W.
C14_SettleDelays ==
    /\ (Done /\ op.fn = "read_mreg" /\ ret.ok) => TwoSettles
    /\ (Done /\ op.fn = "write_mreg" /\ ret.ok) => OneSettle

\* an indirect write has returned Ok having taken its delay
C14_Witness ==
    /\ Done /\ op.fn = "write_mreg" /\ ret.ok
    /\ DelaysTaken = 1
    /\ IsWrite(trace[Len(trace) - 3], "M_W")
====
